---- MODULE Spec2Model ----
(***************************************************************************)
(* Model of backend/src/async.rs: the single-slot waker AtomicTask, the    *)
(* instrumented future TracedFuture and the wakeup relay Notifier, with    *)
(* the thread-local TracerState (current_span, currently_logging_wakeup,   *)
(* the event sink) they read and write.                                    *)
(*                                                                         *)
(* A thread runs a stack of calls.  TracedFuture::poll is split where it   *)
(* hands control to the wrapped computation (line 147): PollEnter is lines *)
(* 99-147, PollReturn lines 150-181.  Notifier::notify is split where it   *)
(* blocks on the AtomicTask mutex and where it calls the taken handle.     *)
(***************************************************************************)
EXTENDS Integers, Sequences, FiniteSets, TLC

\* ---------------------------------------------------------------- bounds
NumThreads == 2
NumFutures == 2
NumRoots == 1
\* Poll calls, Notifier invocations by drivers and wrapped computations, and
\* the two together.
MaxPolls == 3
MaxNotifies == 2
MaxCalls == 4
\* park() and notify() calls on the free-standing AtomicTask.
MaxParks == 2
MaxTaskNotifies == 2

Threads == 1..NumThreads
Futures == 1..NumFutures
RootSpans == 1..NumRoots

\* Option<SpanId>::None; SpanIds are positive.
None == 0

\* The values the wrapped computations of the model resolve or fail with.
ReadyVals == {42}
ErrVals == {7}

VARIABLES
    state,      \* TracedFuture.state of each future
    dropped,    \* the futures that were dropped
    cur,        \* TracerState.current_span of each thread
    logging,    \* TracerState.currently_logging_wakeup of each thread
    nextId,     \* the process-wide SpanId counter
    events,     \* what each thread's sink received, in emission order
    notifiers,  \* the Notifiers created so far
    atasks,     \* the AtomicTasks: atasks[1] is a free-standing one, the rest belong to Notifiers
    stack,      \* each thread's calls in progress, innermost last
    panicking,  \* the thread is unwinding
    woken,      \* how often each driver context was woken
    calls,      \* history: the poll calls of each future that ended, in order
    tally,      \* history: per Notifier, its invocations (all; by an idle thread; by an
                \* idle thread with a span), the Wakeups those by idle threads
                \* emitted, its parent_task.notify() calls and the handles it woke
    ops,        \* history: the operations on the free-standing AtomicTask, in order
    polls,      \* number of poll calls made
    invokes,    \* number of Notifier invocations made from outside a wake
    parks       \* number of park() calls on the free-standing AtomicTask

vars == <<state, dropped, cur, logging, nextId, events, notifiers, atasks, stack,
          panicking, woken, calls, tally, ops, polls, invokes, parks>>

\* ------------------------------------------------------------ data model

\* enum TraceState
Created == [s |-> "Created", parent |-> None, id |-> None]
Executing(parent, id) == [s |-> "Executing", parent |-> parent, id |-> id]
Resolved == [s |-> "Resolved", parent |-> None, id |-> None]
Poisoned == [s |-> "Poisoned", parent |-> None, id |-> None]

\* Poll<F::Item, F::Error>
NotReady == [k |-> "NotReady", v |-> 0]
Ready(v) == [k |-> "Ready", v |-> v]
Err(e) == [k |-> "Err", v |-> e]
Results == {NotReady} \cup {Ready(v) : v \in ReadyVals} \cup {Err(e) : e \in ErrVals}
NoResult == [k |-> "none", v |-> 0]

\* format!("{:?}", e): the Debug rendering of an error value, a string of digits
\* here, kept apart from the value itself.
DebugFmt(e) == <<"Debug", e>>

\* enum AsyncOutcome
Success == [k |-> "Success", d |-> <<>>]
Error(d) == [k |-> "Error", d |-> d]
NoOutcome == [k |-> "none", d |-> <<>>]

\* enum TraceEvent; thr is the thread whose sink received the event.
AsyncStart(name, id, parent_id, thr) ==
    [e |-> "AsyncStart", id |-> id, parent_id |-> parent_id, name |-> name,
     outcome |-> NoOutcome, waking_span |-> None, thr |-> thr]
AsyncOnCPU(id, thr) ==
    [e |-> "AsyncOnCPU", id |-> id, parent_id |-> None, name |-> 0,
     outcome |-> NoOutcome, waking_span |-> None, thr |-> thr]
AsyncOffCPU(id, thr) ==
    [e |-> "AsyncOffCPU", id |-> id, parent_id |-> None, name |-> 0,
     outcome |-> NoOutcome, waking_span |-> None, thr |-> thr]
AsyncEnd(id, outcome, thr) ==
    [e |-> "AsyncEnd", id |-> id, parent_id |-> None, name |-> 0,
     outcome |-> outcome, waking_span |-> None, thr |-> thr]
Wakeup(waking_span, parked_span, thr) ==
    [e |-> "Wakeup", id |-> parked_span, parent_id |-> None, name |-> 0,
     outcome |-> NoOutcome, waking_span |-> waking_span, thr |-> thr]

\* futures::task::Task: the handle of a driver context.  A top-level driver is
\* its thread; inside a TracedFuture's poll the context is that poll's Notifier.
NoTask == [k |-> "none", i |-> 0]
DriverTask(t) == [k |-> "driver", i |-> t]
NotifierTask(n) == [k |-> "ntf", i |-> n]

\* ---------------------------------------------------------------- frames
\* Line 139: the block of lines 100-139 ends and its RefMut st (line 101) is
\* dropped; b is whether the TracerState was mutably borrowed inside the block.
BorrowAfterEntry(b) == FALSE

\* Line 208: the block of lines 193-208 ends and its RefMut st (line 194) is
\* dropped.
BorrowAfterLog(b) == FALSE

\* A poll in progress: the locals parent_id, span_id and notifier of lines
\* 100-143, and (history) current_span and the sink's length at entry; st is
\* whether the frame holds a mutable borrow of the thread's TracerState while the
\* code it calls runs.
PollFrame(f, parent, id, n, pre, from) ==
    [k |-> "poll", f |-> f, parent |-> parent, id |-> id, n |-> n, a |-> 0,
     pre |-> pre, from |-> from, log |-> FALSE, emitted |-> FALSE, pc |-> "inner",
     h |-> NoTask, st |-> BorrowAfterEntry(TRUE)]
\* A notify in progress, of a Notifier (k = "ntf": should_log of line 193 is log)
\* or of the free-standing AtomicTask (k = "notify"); h is the taken handle.
NotifyFrame(k, n, a, log, emitted) ==
    [k |-> k, f |-> 0, parent |-> None, id |-> None, n |-> n, a |-> a,
     pre |-> None, from |-> 0, log |-> log, emitted |-> emitted, pc |-> "lock",
     h |-> NoTask, st |-> (k = "ntf" /\ BorrowAfterLog(TRUE))]

Top(t) == stack[t][Len(stack[t])]
Pop(s) == SubSeq(s, 1, Len(s) - 1)
Idle(t) == stack[t] = <<>> /\ ~panicking[t]
InPoll(t) == stack[t] # <<>> /\ Top(t).k = "poll" /\ ~panicking[t]

\* c.borrow_mut() (lines 101, 194) on thread t's TracerState: it panics when a
\* frame of the thread still holds a mutable borrow.
Borrowed(t) == \E i \in 1..Len(stack[t]) : stack[t][i].st
BorrowMut(t) == IF Borrowed(t) THEN "already borrowed" ELSE "ok"

BeingPolled(f) == \E t \in Threads : \E i \in 1..Len(stack[t]) :
                      stack[t][i].k = "poll" /\ stack[t][i].f = f

\* task::current() on thread t: the handle of the innermost poll in progress,
\* else the thread's own driver.
PollFrames(t) == {i \in 1..Len(stack[t]) : stack[t][i].k = "poll"}
CurrentTask(t) ==
    IF PollFrames(t) = {} THEN DriverTask(t)
    ELSE LET i == CHOOSE j \in PollFrames(t) : \A m \in PollFrames(t) : m <= j
         IN NotifierTask(stack[t][i].n)

Init ==
    /\ state = [f \in Futures |-> Created]
    /\ dropped = {}
    /\ cur = [t \in Threads |-> None]
    /\ logging = [t \in Threads |-> FALSE]
    /\ nextId = NumRoots + 1
    /\ events = [t \in Threads |-> <<>>]
    /\ notifiers = <<>>
    /\ atasks = <<[task |-> NoTask, lock |-> 0, poisoned |-> FALSE]>>
    /\ stack = [t \in Threads |-> <<>>]
    /\ panicking = [t \in Threads |-> FALSE]
    /\ woken = [t \in Threads |-> 0]
    /\ calls = [f \in Futures |-> <<>>]
    /\ tally = <<>>
    /\ ops = <<>>
    /\ polls = 0
    /\ invokes = 0
    /\ parks = 0

\* ------------------------------------------------ root span provisioning
\* The external collaborator that establishes current_span on a thread.
EnterRootSpan(t, s) ==
    /\ Idle(t)
    /\ cur[t] = None
    /\ cur' = [cur EXCEPT ![t] = s]
    /\ UNCHANGED <<state, dropped, logging, nextId, events, notifiers, atasks, stack,
                   panicking, woken, calls, tally, ops, polls, invokes, parks>>

\* ------------------------------------------------------ AtomicTask::park

\* Line 40 answering yes for any recorded handle.
WillNotifyCurrent_Always(task, current) == TRUE

\* Task::will_notify_current: the recorded handle wakes the calling context.
WillNotifyCurrent(task, current) == task = current

\* Lines 37-45 keeping the handle already recorded, whoever recorded it.
SlotAfterPark_KeepFirst(task, current) == IF task # NoTask THEN task ELSE current

\* Lines 37-45 without the store of line 44.
SlotAfterPark_Dropped(task, current) == task

\* Lines 38-44: the slot after park() by the context `current`.
SlotAfterPark(task, current) ==
    IF task # NoTask /\ WillNotifyCurrent(task, current) THEN task ELSE current

\* ----------------------------------------------------- TracedFuture::poll

\* Lines 102-129 without the assertion of line 123.
EntryCheck_NoAssert(st, c) ==
    CASE st.s = "Created" -> IF c = None THEN "Missing parent span" ELSE "ok"
      [] st.s = "Executing" -> "ok"
      [] st.s = "Resolved" -> "Polled after resolved"
      [] st.s = "Poisoned" -> "Polled after panic"

\* Lines 102-129: what the match on the replaced state decides.
EntryCheck(st, c) ==
    CASE st.s = "Created" -> IF c = None THEN "Missing parent span" ELSE "ok"
      [] st.s = "Executing" -> IF c = st.parent THEN "ok"
                               ELSE "Parent span changed across execution"
      [] st.s = "Resolved" -> "Polled after resolved"
      [] st.s = "Poisoned" -> "Polled after panic"

\* Lines 104-126 with SpanId::new() of line 105 run on every poll.
EntrySpan_Realloc(st, c, fresh) ==
    [parent |-> IF st.s = "Created" THEN c ELSE st.parent, id |-> fresh]

\* Lines 104-126: (parent_id, span_id) of the poll.
EntrySpan(st, c, fresh) ==
    IF st.s = "Created" THEN [parent |-> c, id |-> fresh]
    ELSE [parent |-> st.parent, id |-> st.id]

\* Lines 117-118 with the two fields exchanged.
EntryState_Swapped(sp) == Executing(sp.id, sp.parent)

\* Lines 116-119 and 124: the state the match leaves behind on its two good arms.
EntryState(sp) == Executing(sp.parent, sp.id)

\* Line 102 put back what it took out (the state a poll finds would then survive
\* the poll that panics).
FatalState_Restored(st) == st

\* Line 102 (mem::replace) followed by a panic on lines 106, 123, 127 or 128.
FatalState(st) == Poisoned

\* SpanId::new(): the process-wide counter after an id was drawn from it; the id
\* drawn is the counter's value before.
SpanIdNew(n) == n + 1

\* Line 105: SpanId::new() runs on the Created arm, before the expect of line 106.
IdAfterEntry(st, n) == IF st.s = "Created" THEN SpanIdNew(n) ELSE n

\* Lines 131-135 moved into the Created arm: AsyncOnCPU on the first poll only.
EntryEvents_OnCpuOnce(st, sp, f, t) ==
    IF st.s = "Created" THEN <<AsyncStart(f, sp.id, sp.parent, t), AsyncOnCPU(sp.id, t)>>
    ELSE <<>>

\* Lines 108-114 moved out of the Created arm: AsyncStart on every poll.
EntryEvents_StartAlways(st, sp, f, t) ==
    <<AsyncStart(f, sp.id, sp.parent, t), AsyncOnCPU(sp.id, t)>>

\* Lines 108-114 and 131-135: the events of the entry.
EntryEvents(st, sp, f, t) ==
    (IF st.s = "Created" THEN <<AsyncStart(f, sp.id, sp.parent, t)>> ELSE <<>>)
    \o <<AsyncOnCPU(sp.id, t)>>

\* Line 136.
OnCpuSpan(sp) == sp.id

\* Line 152 left out: the span is not left.
OffCpuSpan_NotRestored(fr) == fr.id

\* Line 152.
OffCpuSpan(fr) == fr.parent

\* Line 161 left out: Ready does not resolve.
ResultState_ReadyStays(st, r) == IF r.k = "Err" THEN Resolved ELSE st

\* Line 170 left out: an error does not resolve.
ResultState_ErrStays(st, r) == IF r.k = "Ready" THEN Resolved ELSE st

\* Lines 159-179: the state after the wrapped computation's result.
ResultState(st, r) == IF r.k \in {"Ready", "Err"} THEN Resolved ELSE st

\* Lines 153-179: the events after the wrapped computation's result.
ExitEvents(id, r, t) ==
    <<AsyncOffCPU(id, t)>> \o
    (CASE r.k = "Ready" -> <<AsyncEnd(id, Success, t)>>
       [] r.k = "Err" -> <<AsyncEnd(id, Error(DebugFmt(r.v)), t)>>
       [] OTHER -> <<>>)

\* Line 180 returning NotReady for an error that was only recorded.
PollResult_ErrSwallowed(r) == IF r.k = "Err" THEN NotReady ELSE r

\* Line 180: what poll returns for the wrapped computation's result.
PollResult(r) == r

CallRecord(f, t, kind, msg, id, n, inner, res, pre, post, from, to) ==
    [f |-> f, t |-> t, kind |-> kind, msg |-> msg, id |-> id, n |-> n, inner |-> inner,
     res |-> res, pre |-> pre, post |-> post, from |-> from, to |-> to]

\* Who may poll f on thread t: a driver, or a wrapped computation that is running
\* on t (it polls futures of higher index only: futures do not contain themselves).
CanPoll(t, f) ==
    /\ polls < MaxPolls
    /\ polls + invokes < MaxCalls
    /\ f \notin dropped
    /\ ~BeingPolled(f)
    /\ ~panicking[t]
    /\ \/ stack[t] = <<>>
       \/ /\ InPoll(t)
          /\ Top(t).f < f

\* Lines 99-147 on the arms that do not panic: up to the call into the wrapped
\* computation.
PollEnter(t, f) ==
    /\ CanPoll(t, f)
    /\ BorrowMut(t) = "ok"
    /\ EntryCheck(state[f], cur[t]) = "ok"
    /\ LET sp == EntrySpan(state[f], cur[t], nextId)
           n == Len(notifiers) + 1
           a == Len(atasks) + 1
       IN /\ state' = [state EXCEPT ![f] = EntryState(sp)]
          /\ nextId' = IdAfterEntry(state[f], nextId)
          /\ events' = [events EXCEPT ![t] = @ \o EntryEvents(state[f], sp, f, t)]
          /\ cur' = [cur EXCEPT ![t] = OnCpuSpan(sp)]
          /\ notifiers' = Append(notifiers, [parked_span |-> sp.id, parent_task |-> a])
          /\ tally' = Append(tally, [invoked |-> 0, external |-> 0, spanned |-> 0,
                                     logged |-> 0, notified |-> 0, woke |-> 0,
                                     parker |-> CurrentTask(t)])
          /\ atasks' = Append(atasks, [task |-> SlotAfterPark(NoTask, CurrentTask(t)),
                                       lock |-> 0, poisoned |-> FALSE])
          /\ stack' = [stack EXCEPT ![t] =
                          Append(@, PollFrame(f, sp.parent, sp.id, n, cur[t],
                                              Len(events[t])))]
    /\ polls' = polls + 1
    /\ UNCHANGED <<dropped, logging, panicking, woken, calls, ops, invokes, parks>>

\* Lines 99-129 on the arms that panic.
PollFatal(t, f) ==
    /\ CanPoll(t, f)
    /\ BorrowMut(t) # "ok" \/ EntryCheck(state[f], cur[t]) # "ok"
    /\ state' = IF BorrowMut(t) # "ok" THEN state
                ELSE [state EXCEPT ![f] = FatalState(state[f])]
    /\ nextId' = IF BorrowMut(t) # "ok" THEN nextId ELSE IdAfterEntry(state[f], nextId)
    /\ calls' = [calls EXCEPT ![f] =
                    Append(@, CallRecord(f, t, "fatal",
                                         IF BorrowMut(t) # "ok" THEN BorrowMut(t)
                                         ELSE EntryCheck(state[f], cur[t]), None,
                                         0, NoResult, NoResult, cur[t], cur[t],
                                         Len(events[t]), Len(events[t])))]
    /\ panicking' = [panicking EXCEPT ![t] = (stack[t] # <<>>)]
    /\ polls' = polls + 1
    /\ UNCHANGED <<dropped, cur, logging, events, notifiers, atasks, stack, woken, tally,
                   ops, invokes, parks>>

\* The wrapped computation returns r; lines 150-181.
PollReturn(t, r) ==
    /\ InPoll(t)
    /\ LET fr == Top(t)
           ev == events[t] \o ExitEvents(fr.id, r, t)
       IN /\ cur' = [cur EXCEPT ![t] = OffCpuSpan(fr)]
          /\ events' = [events EXCEPT ![t] = ev]
          /\ state' = [state EXCEPT ![fr.f] = ResultState(@, r)]
          /\ calls' = [calls EXCEPT ![fr.f] =
                          Append(@, CallRecord(fr.f, t, "ret", "", fr.id, fr.n, r, PollResult(r),
                                               fr.pre, OffCpuSpan(fr), fr.from, Len(ev)))]
    /\ stack' = [stack EXCEPT ![t] = Pop(@)]
    /\ UNCHANGED <<dropped, logging, nextId, notifiers, atasks, panicking, woken, tally,
                   ops, polls, invokes, parks>>

\* A poll that is left by unwinding: poll has no catch and no drop guard, so the
\* unwind leaves lines 145-148 and 99 with nothing undone.
UnwindPoll(t, msg) ==
    /\ LET fr == Top(t)
       IN calls' = [calls EXCEPT ![fr.f] =
                       Append(@, CallRecord(fr.f, t, "unwind", msg, fr.id, fr.n, NoResult,
                                            NoResult, fr.pre, cur[t], fr.from,
                                            Len(events[t])))]
    /\ stack' = [stack EXCEPT ![t] = Pop(@)]
    /\ panicking' = [panicking EXCEPT ![t] = (Len(stack[t]) > 1)]
    /\ UNCHANGED <<state, dropped, cur, logging, nextId, events, notifiers, atasks, woken,
                   tally, ops, polls, invokes, parks>>

\* The wrapped computation panics inside line 147.
InnerPanic(t) ==
    /\ InPoll(t)
    /\ UnwindPoll(t, "inner")

\* A panic raised further in passes through an enclosing poll (line 147) on its
\* way to the driver, which catches it.
Unwind(t) ==
    /\ panicking[t]
    /\ stack[t] # <<>>
    /\ Top(t).k = "poll"
    /\ UnwindPoll(t, "nested")

\* The wrapped computation of the enclosing poll catches the panic of the poll it
\* made (F is any Future, so line 147 may run a nested poll under catch_unwind,
\* as the futures combinator of that name does) and goes on executing.
Catch(t) ==
    /\ panicking[t]
    /\ stack[t] # <<>>
    /\ Top(t).k = "poll"
    /\ panicking' = [panicking EXCEPT ![t] = FALSE]
    /\ UNCHANGED <<state, dropped, cur, logging, nextId, events, notifiers, atasks, stack,
                   woken, calls, tally, ops, polls, invokes, parks>>

\* The owner drops the future (TracedFuture has no Drop: nothing is emitted).
DropFuture(f) ==
    /\ f \notin dropped
    /\ ~BeingPolled(f)
    /\ dropped' = dropped \cup {f}
    /\ UNCHANGED <<state, cur, logging, nextId, events, notifiers, atasks, stack,
                   panicking, woken, calls, tally, ops, polls, invokes, parks>>

\* ------------------------------------------------------ Notifier::notify

\* Line 195 without the guard.
ShouldLog_Always(guard) == TRUE

\* Line 195.
ShouldLog(guard) == ~guard

\* Lines 198-199 with the two spans exchanged.
WakeupEvents_Swapped(should_log, c, parked_span, t) ==
    IF should_log /\ c # None THEN <<Wakeup(parked_span, c, t)>> ELSE <<>>

\* Lines 196-204 left out: no invocation emits a Wakeup.
WakeupEvents_Never(should_log, c, parked_span, t) == <<>>

\* Lines 196-204: the Wakeup event of an invocation.
WakeupEvents(should_log, c, parked_span, t) ==
    IF should_log /\ c # None THEN <<Wakeup(c, parked_span, t)>> ELSE <<>>

\* Lines 196-206: the guard after the logging block.
GuardAfterLog(should_log, guard) == IF should_log THEN TRUE ELSE guard

\* Lines 212-215: the guard after the invocation.
GuardAfterNotify(should_log, guard) == IF should_log THEN FALSE ELSE guard

\* Line 210 moved inside the block of line 195.
CallsTaskNotify_OnlyWhenLogging(should_log) == should_log

\* Line 210: parent_task.notify() is called whatever should_log is.
CallsTaskNotify(should_log) == TRUE

\* Lines 192-210 of an invocation of Notifier n on thread t, up to the call of
\* parent_task.notify(); base is the stack the invocation is made from.
NotifierBegin(t, n, base) ==
    LET should_log == ShouldLog(logging[t])
        ev == WakeupEvents(should_log, cur[t], notifiers[n].parked_span, t)
        fr == NotifyFrame("ntf", n, notifiers[n].parent_task, should_log, ev # <<>>)
    IN IF BorrowMut(t) # "ok"
       THEN /\ stack' = [stack EXCEPT ![t] = base]
            /\ panicking' = [panicking EXCEPT ![t] = (base # <<>>)]
            /\ tally' = [tally EXCEPT ![n].invoked = @ + 1]
            /\ UNCHANGED <<events, logging>>
       ELSE /\ events' = [events EXCEPT ![t] = @ \o ev]
            /\ logging' = [logging EXCEPT ![t] = GuardAfterLog(should_log, @)]
            /\ stack' = [stack EXCEPT ![t] =
                            Append(base, IF CallsTaskNotify(should_log) THEN fr
                                         ELSE [fr EXCEPT !.pc = "done"])]
            /\ tally' = [tally EXCEPT
                            ![n].invoked = @ + 1,
                            ![n].external = @ + (IF stack[t] = <<>> THEN 1 ELSE 0),
                            ![n].spanned = @ + (IF stack[t] = <<>> /\ cur[t] # None THEN 1 ELSE 0),
                            ![n].logged = @ + (IF stack[t] = <<>> THEN Len(ev) ELSE 0)]
            /\ UNCHANGED panicking

\* A Notifier is invoked by a thread that is not inside a wake: an idle thread
\* (a reactor, a timer, a test) or the wrapped computation that is running.
NotifierInvoke(t, n) ==
    /\ invokes < MaxNotifies
    /\ polls + invokes < MaxCalls
    /\ n \in 1..Len(notifiers)
    /\ Idle(t) \/ InPoll(t)
    /\ NotifierBegin(t, n, stack[t])
    /\ invokes' = invokes + 1
    /\ UNCHANGED <<state, dropped, cur, nextId, notifiers, atasks, woken, calls, ops, polls,
                   parks>>

\* ------------------------------------------------------------ AtomicTask

InNotify(t, pc) ==
    /\ stack[t] # <<>>
    /\ Top(t).k \in {"ntf", "notify"}
    /\ Top(t).pc = pc
    /\ ~panicking[t]

SetTop(t, fr) == [stack[t] EXCEPT ![Len(stack[t])] = fr]

OpRecord(op, t, h) == [op |-> op, t |-> t, h |-> h]

\* The history of the free-standing AtomicTask after a step on AtomicTask a.
Logged(a, rec) == IF a = 1 THEN Append(ops, rec) ELSE ops

\* The tallies after a step of a notify in frame fr.
Tallied(fr, notified, woke) ==
    IF fr.k = "ntf"
    THEN [tally EXCEPT ![fr.n].notified = @ + notified, ![fr.n].woke = @ + woke]
    ELSE tally

\* Line 32 reading the slot without take().
SlotAfterTake_Kept(task) == task

\* Line 32: the slot after take().
SlotAfterTake(task) == NoTask

\* Line 32: the mutex once the scrutinee of the if-let is evaluated.  The guard
\* is a temporary of the scrutinee, which lives to the end of the if-let
\* statement: while the Some arm runs the mutex stays locked.
LockAfterTake(task, t) == IF task = NoTask THEN 0 ELSE t

\* Line 34: the guard is dropped.
Unlocked(lock, t) == IF lock = t THEN 0 ELSE lock

\* AtomicTask::notify, line 32, on a slot that holds a handle: lock the mutex and
\* take the handle.
TaskTake(t) ==
    /\ InNotify(t, "lock")
    /\ LET fr == Top(t)
           task == atasks[fr.a].task
       IN /\ atasks[fr.a].lock = 0
          /\ task # NoTask
          /\ ~atasks[fr.a].poisoned
          /\ atasks' = [atasks EXCEPT ![fr.a] = [task |-> SlotAfterTake(task),
                                                  lock |-> LockAfterTake(task, t),
                                                  poisoned |-> FALSE]]
          /\ stack' = [stack EXCEPT ![t] = SetTop(t, [fr EXCEPT !.pc = "wake", !.h = task])]
          /\ ops' = Logged(fr.a, OpRecord("take", t, task))
          /\ tally' = Tallied(fr, 1, 0)
    /\ UNCHANGED <<state, dropped, cur, logging, nextId, events, notifiers, panicking,
                   woken, calls, polls, invokes, parks>>

\* AtomicTask::notify, lines 32-35, on an empty slot, and the rest of the caller
\* (lines 212-216 of a Notifier).
TaskTakeNone(t) ==
    /\ InNotify(t, "lock")
    /\ LET fr == Top(t)
           task == atasks[fr.a].task
       IN /\ atasks[fr.a].lock = 0
          /\ task = NoTask
          /\ ~atasks[fr.a].poisoned
          /\ atasks' = [atasks EXCEPT ![fr.a] =
                           [task |-> SlotAfterTake(task),
                            lock |-> Unlocked(LockAfterTake(task, t), t),
                            poisoned |-> FALSE]]
          /\ logging' = [logging EXCEPT ![t] = GuardAfterNotify(fr.log, @)]
          /\ ops' = Logged(fr.a, OpRecord("none", t, task))
          /\ tally' = Tallied(fr, 1, 0)
    /\ stack' = [stack EXCEPT ![t] = Pop(@)]
    /\ UNCHANGED <<state, dropped, cur, nextId, events, notifiers, panicking, woken, calls,
                   polls, invokes, parks>>

\* Lines 33-35, task.notify() on the handle of a top-level driver: the driver is
\* told to poll again; then the rest of the caller.
WakeDriver(t) ==
    /\ InNotify(t, "wake")
    /\ Top(t).h.k = "driver"
    /\ LET fr == Top(t)
       IN /\ woken' = [woken EXCEPT ![fr.h.i] = @ + 1]
          /\ atasks' = [atasks EXCEPT ![fr.a].lock = Unlocked(@, t)]
          /\ logging' = [logging EXCEPT ![t] = GuardAfterNotify(fr.log, @)]
          /\ ops' = Logged(fr.a, OpRecord("wake", t, fr.h))
          /\ tally' = Tallied(fr, 0, 1)
    /\ stack' = [stack EXCEPT ![t] = Pop(@)]
    /\ UNCHANGED <<state, dropped, cur, nextId, events, notifiers, panicking, calls, polls,
                   invokes, parks>>

\* Line 33, task.notify() on a handle recorded inside an enclosing TracedFuture's
\* poll: it invokes that poll's Notifier, on this thread.
WakeNotifier(t) ==
    /\ InNotify(t, "wake")
    /\ Top(t).h.k = "ntf"
    /\ NotifierBegin(t, Top(t).h.i, SetTop(t, [Top(t) EXCEPT !.pc = "done"]))
    /\ UNCHANGED <<state, dropped, cur, nextId, notifiers, atasks, woken, calls, ops, polls,
                   invokes, parks>>

\* The Notifier invoked by line 33 has returned: lines 34-35 and the rest of the
\* caller.
NotifyEnd(t) ==
    /\ InNotify(t, "done")
    /\ LET fr == Top(t)
       IN /\ atasks' = [atasks EXCEPT ![fr.a].lock = Unlocked(@, t)]
          /\ logging' = [logging EXCEPT ![t] = GuardAfterNotify(fr.log, @)]
          /\ tally' = Tallied(fr, 0, IF fr.h = NoTask THEN 0 ELSE 1)
    /\ stack' = [stack EXCEPT ![t] = Pop(@)]
    /\ UNCHANGED <<state, dropped, cur, nextId, events, notifiers, panicking, woken, calls,
                   ops, polls, invokes, parks>>

\* A notify frame is left by unwinding: the MutexGuard of line 32, if this call
\* holds it, is dropped while panicking, which unlocks and poisons the mutex;
\* lines 212-215 of a Notifier are not reached (Notifier::notify has no drop guard
\* and no catch), so the guard flag stays as it is.
UnwindNotifyFrame(t, notified) ==
    /\ LET fr == Top(t)
       IN /\ atasks' = [atasks EXCEPT ![fr.a] =
                           IF @.lock = t
                           THEN [@ EXCEPT !.lock = Unlocked(@, t), !.poisoned = TRUE]
                           ELSE @]
          /\ tally' = Tallied(fr, notified, 0)
    /\ stack' = [stack EXCEPT ![t] = Pop(@)]
    /\ panicking' = [panicking EXCEPT ![t] = (Len(stack[t]) > 1)]
    /\ UNCHANGED <<state, dropped, cur, logging, nextId, events, notifiers, woken, calls,
                   ops, polls, invokes, parks>>

\* Line 33: task.notify() on the handle of a top-level driver panics (the
\* driver's Notify implementation is code of the executor).
WakePanic(t) ==
    /\ InNotify(t, "wake")
    /\ Top(t).h.k = "driver"
    /\ UnwindNotifyFrame(t, 0)

\* Line 32: lock() returns Err on a poisoned mutex and unwrap() panics.
LockPoisoned(t) ==
    /\ InNotify(t, "lock")
    /\ atasks[Top(t).a].lock = 0
    /\ atasks[Top(t).a].poisoned
    /\ UnwindNotifyFrame(t, 1)

\* A panic raised further in passes through a notify (line 33 or line 210) on
\* its way to whoever invoked the Notifier.
UnwindNotify(t) ==
    /\ panicking[t]
    /\ stack[t] # <<>>
    /\ Top(t).k \in {"ntf", "notify"}
    /\ UnwindNotifyFrame(t, 0)

\* Line 33: the wake routine of the taken handle calls park() or notify() on the
\* AtomicTask it was taken from (lines 38, 32), on the thread that is inside
\* notify() and still holds the mutex.  std's Mutex does not return from lock()
\* then: the call blocks for ever or panics.
WakeReenters(t) ==
    /\ InNotify(t, "wake")
    /\ Top(t).h.k = "driver"
    /\ atasks[Top(t).a].lock = t
    /\ stack' = [stack EXCEPT ![t] = SetTop(t, [Top(t) EXCEPT !.pc = "relock"])]
    /\ UNCHANGED <<state, dropped, cur, logging, nextId, events, notifiers, atasks,
                   panicking, woken, calls, tally, ops, polls, invokes, parks>>

\* The second lock() of the thread panics, and the panic leaves notify().
RelockPanic(t) ==
    /\ InNotify(t, "relock")
    /\ UnwindNotifyFrame(t, 0)

\* AtomicTask::park (lines 37-45) on the free-standing AtomicTask, by a driver.
AtomicPark(t) ==
    /\ parks < MaxParks
    /\ Idle(t)
    /\ atasks[1].lock = 0
    /\ ~atasks[1].poisoned
    /\ atasks' = [atasks EXCEPT ![1].task = SlotAfterPark(@, CurrentTask(t))]
    /\ ops' = Append(ops, OpRecord("park", t, CurrentTask(t)))
    /\ parks' = parks + 1
    /\ UNCHANGED <<state, dropped, cur, logging, nextId, events, notifiers, stack,
                   panicking, woken, calls, tally, polls, invokes>>

\* AtomicTask::notify (line 31) is called on the free-standing AtomicTask.
AtomicNotify(t) ==
    /\ invokes < MaxTaskNotifies
    /\ Idle(t)
    /\ stack' = [stack EXCEPT ![t] = Append(@, NotifyFrame("notify", 0, 1, FALSE, FALSE))]
    /\ ops' = Append(ops, OpRecord("call", t, NoTask))
    /\ invokes' = invokes + 1
    /\ UNCHANGED <<state, dropped, cur, logging, nextId, events, notifiers, atasks,
                   panicking, woken, calls, tally, polls, parks>>

\* ------------------------------------------------------- specifications

\* TracedFuture and Notifier under drivers on every thread.
Next ==
    \/ \E t \in Threads, s \in RootSpans : EnterRootSpan(t, s)
    \/ \E t \in Threads, f \in Futures : PollEnter(t, f)
    \/ \E t \in Threads, f \in Futures : PollFatal(t, f)
    \/ \E t \in Threads, r \in Results : PollReturn(t, r)
    \/ \E t \in Threads : InnerPanic(t)
    \/ \E t \in Threads : Unwind(t)
    \/ \E t \in Threads : Catch(t)
    \/ \E f \in Futures : DropFuture(f)
    \/ \E t \in Threads, n \in 1..MaxPolls : NotifierInvoke(t, n)
    \/ \E t \in Threads : TaskTake(t)
    \/ \E t \in Threads : TaskTakeNone(t)
    \/ \E t \in Threads : WakeDriver(t)
    \/ \E t \in Threads : WakeNotifier(t)
    \/ \E t \in Threads : NotifyEnd(t)

Spec == Init /\ [][Next]_vars

\* TracedFuture and Notifier under drivers whose wake routine may panic.
NextWakePanic ==
    \/ Next
    \/ \E t \in Threads : WakePanic(t)
    \/ \E t \in Threads : LockPoisoned(t)
    \/ \E t \in Threads : UnwindNotify(t)

SpecWakePanic == Init /\ [][NextWakePanic]_vars

\* The free-standing AtomicTask under park() and notify() from every thread.
NextAtomic ==
    \/ \E t \in Threads : AtomicPark(t)
    \/ \E t \in Threads : AtomicNotify(t)
    \/ \E t \in Threads : TaskTake(t)
    \/ \E t \in Threads : TaskTakeNone(t)
    \/ \E t \in Threads : WakeDriver(t)

SpecAtomic == Init /\ [][NextAtomic]_vars

\* The free-standing AtomicTask with handles whose wake routine may call back
\* into the AtomicTask.
NextReentrant ==
    \/ NextAtomic
    \/ \E t \in Threads : WakeReenters(t)
    \/ \E t \in Threads : RelockPanic(t)
    \/ \E t \in Threads : LockPoisoned(t)

SpecReentrant == Init /\ [][NextReentrant]_vars

\* ------------------------------------------------------- reading history

Last(s) == s[Len(s)]

\* The ended poll calls, as (future, position) pairs.
Calls == {<<f, i>> : f \in Futures, i \in 1..MaxPolls} \cap
         {x \in Futures \X (1..MaxPolls) : x[2] <= Len(calls[x[1]])}
Call(x) == calls[x[1]][x[2]]

\* The events a sink received while a poll call ran.
Slice(c) == SubSeq(events[c.t], c.from + 1, c.to)

IsAsync(e) == e.e \in {"AsyncStart", "AsyncOnCPU", "AsyncOffCPU", "AsyncEnd"}

\* The events of the poll call's own span among them.
Own(c) == SelectSeq(Slice(c), LAMBDA e : IsAsync(e) /\ e.id = c.id)

\* How many events of all sinks satisfy P.
Emitted(P(_)) ==
    LET n[t \in 0..NumThreads] ==
            IF t = 0 THEN 0
            ELSE n[t - 1] + Cardinality({i \in 1..Len(events[t]) : P(events[t][i])})
    IN n[NumThreads]

Kinds(evs) == [i \in 1..Len(evs) |-> evs[i].e]

\* The poll frames in progress, as (thread, position) pairs.
Polling == {x \in Threads \X (1..MaxPolls) :
               x[2] <= Len(stack[x[1]]) /\ stack[x[1]][x[2]].k = "poll"}

\* ------------------------------------------------------------- claims

\* C1 (as claimed): once a poll call of a future has exited by unwinding, the
\* future is Poisoned, and every later poll of it fails with "Polled after panic".
C1_UnwindPoisons ==
    \A x \in Calls :
        Call(x).kind \in {"unwind", "fatal"} =>
            /\ state[x[1]] = Poisoned
            /\ \A y \in Calls :
                   (y[1] = x[1] /\ y[2] > x[2]) =>
                       (Call(y).kind = "fatal" /\ Call(y).msg = "Polled after panic")

\* C2: every poll call that returned left current_span of its thread equal to the
\* value it had when the call was made, at any nesting depth.
C2_SpanRestored ==
    \A x \in Calls : Call(x).kind = "ret" => Call(x).post = Call(x).pre

\* C2 witness: a poll nested inside another poll has returned, and so has a poll
\* made by a driver.
C2_Witness ==
    /\ \E x \in Calls : Call(x).kind = "ret" /\ Call(x).pre \notin RootSpans
                        /\ Call(x).post = Call(x).pre
    /\ \E x \in Calls : Call(x).kind = "ret" /\ Call(x).pre \in RootSpans

\* The span a future started, None before its AsyncStart.
Started(f) == Emitted(LAMBDA e : e.e = "AsyncStart" /\ e.name = f)
SpanOf(f) ==
    IF \E t \in Threads : \E i \in 1..Len(events[t]) :
           events[t][i].e = "AsyncStart" /\ events[t][i].name = f
    THEN LET t == CHOOSE u \in Threads : \E i \in 1..Len(events[u]) :
                      events[u][i].e = "AsyncStart" /\ events[u][i].name = f
             i == CHOOSE j \in 1..Len(events[t]) :
                      events[t][j].e = "AsyncStart" /\ events[t][j].name = f
         IN events[t][i].id
    ELSE None
Ends(id) == Emitted(LAMBDA e : e.e = "AsyncEnd" /\ e.id = id)

\* The wrapped computation of f has returned Ready or an error to a poll.
Completed(f) ==
    \E i \in 1..Len(calls[f]) : calls[f][i].kind = "ret" /\ calls[f][i].inner.k \in {"Ready", "Err"}

\* C3: a started span has exactly one AsyncEnd if its future was polled to
\* completion and none otherwise (so none when it was dropped while Executing),
\* and never more than one.
C3_OneEndIffCompleted ==
    \A f \in Futures :
        Started(f) > 0 =>
            /\ Ends(SpanOf(f)) <= 1
            /\ (Ends(SpanOf(f)) = 1) <=> Completed(f)
            /\ (f \in dropped /\ state[f].s = "Executing") => Ends(SpanOf(f)) = 0

\* C3 witness: one future was polled to completion and has its AsyncEnd, another
\* was dropped while Executing and has none.
C3_Witness ==
    /\ \E f \in Futures : Started(f) > 0 /\ Completed(f) /\ Ends(SpanOf(f)) = 1
    /\ \E f \in Futures : Started(f) > 0 /\ f \in dropped /\ state[f].s = "Executing"
                          /\ Ends(SpanOf(f)) = 0

\* The events of kind k and of future f's span that a sink received during call c.
OwnCount(c, k) ==
    Cardinality({i \in 1..Len(Slice(c)) :
                    Slice(c)[i].e = k /\ Slice(c)[i].id # None /\ Slice(c)[i].id = SpanOf(c.f)})

OwnAt(c, k) == {i \in 1..Len(Slice(c)) : Slice(c)[i].e = k /\ Slice(c)[i].id = c.id}

FirstPre(f) ==
    LET ended == {i \in 1..Len(calls[f]) : calls[f][i].kind # "fatal"}
    IN IF ended # {}
       THEN calls[f][CHOOSE i \in ended : \A j \in ended : i <= j].pre
       ELSE LET x == CHOOSE y \in Polling : stack[y[1]][y[2]].f = f
            IN stack[x[1]][x[2]].pre

\* C5: the parent_id of a future's AsyncStart is current_span of the polling
\* thread when its first poll was entered; Executing records that parent, and
\* every later poll that returns leaves current_span at it.
C5_ParentIsSpanAtFirstPoll ==
    \A t \in Threads : \A i \in 1..Len(events[t]) :
        LET e == events[t][i]
        IN e.e = "AsyncStart" =>
              /\ e.parent_id = FirstPre(e.name)
              /\ e.parent_id # None
              /\ state[e.name].s = "Executing" =>
                     (state[e.name].parent = e.parent_id /\ state[e.name].id = e.id)
              /\ \A j \in 1..Len(calls[e.name]) :
                     calls[e.name][j].kind = "ret" => calls[e.name][j].post = e.parent_id

\* C5 witness: a future started under a parent that is not a root span was
\* polled again later, and that poll returned.
C5_Witness ==
    \E f \in Futures :
        /\ Started(f) > 0
        /\ Cardinality({i \in 1..Len(calls[f]) : calls[f][i].kind = "ret"}) >= 2
        /\ FirstPre(f) \notin RootSpans

\* The operations on the free-standing AtomicTask's slot before position j.
SlotOps(j) == {i \in 1..(j - 1) : ops[i].op \in {"park", "take"}}
LastSlotOp(j) == ops[CHOOSE i \in SlotOps(j) : \A m \in SlotOps(j) : m <= i]
TakesOf(d) == Cardinality({j \in 1..Len(ops) : ops[j].op = "take" /\ ops[j].h = DriverTask(d)})
Waking(d) == Cardinality({t \in Threads : stack[t] # <<>> /\ Top(t).pc = "wake"
                                          /\ Top(t).h = DriverTask(d)})

\* C6: a notify() takes a handle only when a park() recorded it since the last
\* take, and then it is the parker's handle and is woken exactly once; any other
\* notify(), a second one or one that lost the race, finds the slot empty and
\* wakes nothing.
C6_WokenOncePerPark ==
    /\ \A j \in 1..Len(ops) :
           /\ ops[j].op = "take" =>
                  /\ SlotOps(j) # {}
                  /\ LastSlotOp(j).op = "park"
                  /\ LastSlotOp(j).h = ops[j].h
           /\ ops[j].op = "none" => (SlotOps(j) = {} \/ LastSlotOp(j).op = "take")
    /\ \A d \in Threads : woken[d] + Waking(d) = TakesOf(d)

\* C6 witness: after one park() two threads were inside notify() at once; the
\* parker was woken once and the other notify() found the slot empty.
C6_Witness ==
    /\ \E i \in 1..Len(ops) :
           /\ i + 2 <= Len(ops)
           /\ ops[i].op = "park"
           /\ ops[i + 1].op = "call" /\ ops[i + 2].op = "call"
           /\ ops[i + 1].t # ops[i + 2].t
           /\ Cardinality({j \in 1..Len(ops) : ops[j].op = "park"}) = 1
           /\ woken[ops[i].t] = 1
    /\ \E j \in 1..Len(ops) : ops[j].op = "none"
    /\ \A t \in Threads : stack[t] = <<>>

\* The Notifier invocations in progress on a thread, outermost first.
Relaying(t) == {i \in 1..Len(stack[t]) : stack[t][i].k = "ntf"}
AtLock(n) == Cardinality({x \in Threads \X (1..(2 * MaxPolls)) :
                             /\ x[2] <= Len(stack[x[1]])
                             /\ stack[x[1]][x[2]].k = "ntf"
                             /\ stack[x[1]][x[2]].n = n
                             /\ stack[x[1]][x[2]].pc = "lock"})

\* C7: an invocation made from inside another invocation on the same thread emits
\* no Wakeup, so the Wakeups are those of the outer invocations (one each when
\* the thread has a span); and every invocation, outer or inner, calls
\* parent_task.notify() once.
C7_OnlyOuterLogs ==
    /\ \A t \in Threads : \A j \in Relaying(t) :
           IF \E i \in Relaying(t) : i < j
           THEN ~stack[t][j].log /\ ~stack[t][j].emitted
           ELSE stack[t][j].log /\ (stack[t][j].emitted <=> cur[t] # None)
    /\ Emitted(LAMBDA e : e.e = "Wakeup") <= invokes
    /\ \A n \in 1..Len(notifiers) : tally[n].notified + AtLock(n) = tally[n].invoked

\* C7 witness: an outer invocation that emitted its Wakeup is waiting for an
\* inner one, which has called parent_task.notify() and taken the driver's handle.
C7_Witness ==
    \E t \in Threads : \E i, j \in Relaying(t) :
        /\ i < j
        /\ stack[t][i].emitted
        /\ stack[t][j].pc = "wake"
        /\ tally[stack[t][j].n].notified = 1
        /\ tally[stack[t][i].n].notified = 1

\* C8 (as claimed): when the wrapped computation returns NotReady and then Ready,
\* the first poll emits AsyncStart, AsyncOnCPU, AsyncOffCPU; every invocation of
\* the first poll's Notifier by an idle thread emits exactly one Wakeup; the
\* second poll emits AsyncOnCPU, AsyncOffCPU, AsyncEnd(Success) and no AsyncStart.
C8_Events(f, wakeups(_)) ==
    LET c1 == calls[f][1]
        c2 == calls[f][2]
    IN (Len(calls[f]) >= 1 /\ c1.kind = "ret" /\ c1.inner = NotReady) =>
          /\ Own(c1) = <<AsyncStart(f, c1.id, c1.pre, c1.t), AsyncOnCPU(c1.id, c1.t),
                         AsyncOffCPU(c1.id, c1.t)>>
          /\ tally[c1.n].logged = wakeups(tally[c1.n])
          /\ (Len(calls[f]) >= 2 /\ c2.kind = "ret" /\ c2.inner.k = "Ready") =>
                 /\ Own(c2) = <<AsyncOnCPU(c1.id, c2.t), AsyncOffCPU(c1.id, c2.t),
                                AsyncEnd(c1.id, Success, c2.t)>>
                 /\ Started(f) = 1

C8_NotReadyThenReady ==
    \A f \in Futures : C8_Events(f, LAMBDA y : y.external)

\* C8 (amended): the same, but an invocation by an idle thread emits exactly one
\* Wakeup when that thread has an active current_span, and none when it has not.
C8_NotReadyThenReadySpanned ==
    \A f \in Futures : C8_Events(f, LAMBDA y : y.spanned)

\* C8 witness: the scenario ran, with the first poll's Notifier invoked between
\* the two polls by an idle thread that has a span.
C8_Witness ==
    \E f \in Futures :
        /\ Len(calls[f]) = 2
        /\ calls[f][1].kind = "ret" /\ calls[f][1].inner = NotReady
        /\ calls[f][2].kind = "ret" /\ calls[f][2].inner = Ready(42)
        /\ tally[calls[f][1].n].spanned = 1
        /\ tally[calls[f][1].n].logged = 1
        /\ tally[calls[f][2].n].invoked = 0

\* C9: when the wrapped computation fails on the first poll, that poll emits
\* AsyncStart, AsyncOnCPU, AsyncOffCPU, AsyncEnd(Error(description)) and leaves
\* the future Resolved; every later poll aborts at the entry checks, so the
\* wrapped computation is polled that once only.
C9_ErrorOnFirstPoll ==
    \A f \in Futures :
        LET c1 == calls[f][1]
        IN (Len(calls[f]) >= 1 /\ c1.kind = "ret" /\ c1.inner.k = "Err") =>
              /\ Own(c1) = <<AsyncStart(f, c1.id, c1.pre, c1.t), AsyncOnCPU(c1.id, c1.t),
                             AsyncOffCPU(c1.id, c1.t),
                             AsyncEnd(c1.id, Error(DebugFmt(c1.inner.v)), c1.t)>>
              /\ Len(calls[f]) = 1 => state[f] = Resolved
              /\ state[f].s \in {"Resolved", "Poisoned"}
              /\ ~BeingPolled(f)
              /\ \A j \in 2..Len(calls[f]) : calls[f][j].kind = "fatal"

\* C9 witness: a future whose first poll failed was polled again, and that poll
\* aborted.
C9_Witness ==
    \E f \in Futures :
        /\ Len(calls[f]) >= 2
        /\ calls[f][1].kind = "ret" /\ calls[f][1].inner.k = "Err"
        /\ calls[f][2].kind = "fatal" /\ calls[f][2].msg = "Polled after resolved"

\* The results a future's poll calls returned, and those its wrapped
\* computation returned, in order.
Returned(f) == SelectSeq(calls[f], LAMBDA c : c.kind = "ret")
Seen(f) == [i \in 1..Len(Returned(f)) |-> Returned(f)[i].res]
Produced(f) == [i \in 1..Len(Returned(f)) |-> Returned(f)[i].inner]

\* C10: a poll call that returns hands its caller the result the wrapped
\* computation returned, unchanged, so the driver sees the results it would see
\* polling the wrapped computation itself.
C10_Transparent ==
    \A f \in Futures : Seen(f) = Produced(f)

\* C10 witness: a driver has seen NotReady and then an error from one future, and
\* a Ready from some future.
C10_Witness ==
    /\ \E f \in Futures : Len(Seen(f)) >= 2 /\ Seen(f)[1] = NotReady /\ Seen(f)[2] = Err(7)
    /\ \E f \in Futures : \E i \in 1..Len(Seen(f)) : Seen(f)[i] = Ready(42)

\* A poll of future f made in this step, on any thread.
PolledNow(f) ==
    /\ polls' = polls + 1
    /\ \/ Len(calls'[f]) = Len(calls[f]) + 1
       \/ BeingPolled(f)'

\* C11: a poll of a future that is Resolved or Poisoned is fatal: in that step
\* no sink receives an event, the wrapped computation is not polled (no frame,
\* no Notifier), no current_span changes, and the future is Poisoned afterwards;
\* it stays Poisoned, and every later poll of it fails with "Polled after panic".
C11_EndedPollFatal ==
    /\ [][\A f \in Futures :
              (PolledNow(f) /\ state[f].s \in {"Resolved", "Poisoned"}) =>
                  /\ Len(calls'[f]) = Len(calls[f]) + 1
                  /\ Last(calls'[f]).kind = "fatal"
                  /\ Last(calls'[f]).msg = (IF state[f].s = "Resolved"
                                            THEN "Polled after resolved"
                                            ELSE "Polled after panic")
                  /\ events' = events
                  /\ cur' = cur
                  /\ stack' = stack
                  /\ notifiers' = notifiers
                  /\ state'[f] = Poisoned]_vars
    /\ [](\A x \in Calls :
              Call(x).msg \in {"Polled after resolved", "Polled after panic"} =>
                  /\ state[x[1]] = Poisoned
                  /\ ~BeingPolled(x[1])
                  /\ \A y \in Calls :
                         (y[1] = x[1] /\ y[2] > x[2]) =>
                             (Call(y).kind = "fatal" /\ Call(y).msg = "Polled after panic"))

\* C11 witness: a future was polled after it resolved, and polled once more
\* after that.
C11_Witness ==
    \E f \in Futures : \E i, j \in 1..Len(calls[f]) :
        /\ i < j
        /\ calls[f][i].msg = "Polled after resolved"
        /\ calls[f][j].msg = "Polled after panic"
        /\ state[f] = Poisoned

\* A poll of future f made in this step on thread t.
PolledNowOn(t, f) ==
    /\ polls' = polls + 1
    /\ \/ Len(calls'[f]) = Len(calls[f]) + 1 /\ Last(calls'[f]).t = t
       \/ Len(stack'[t]) = Len(stack[t]) + 1 /\ Last(stack'[t]).f = f

\* The span precondition of a poll of f on thread t does not hold.
SpanCheckFails(t, f) ==
    \/ state[f].s = "Created" /\ cur[t] = None
    \/ state[f].s = "Executing" /\ cur[t] # state[f].parent

\* C12: a poll whose span precondition fails (a first poll on a thread without a
\* span; a later poll, on any thread, whose current_span is not Some(parent)) is
\* fatal: in that step no sink receives an event, the wrapped computation is not
\* polled and no current_span changes. So every wrapped computation that is being
\* polled was entered with current_span = Some(parent).
C12_SpanCheckFatal ==
    /\ [][\A t \in Threads, f \in Futures :
              (PolledNowOn(t, f) /\ SpanCheckFails(t, f)) =>
                  /\ Len(calls'[f]) = Len(calls[f]) + 1
                  /\ Last(calls'[f]).kind = "fatal"
                  /\ Last(calls'[f]).msg = (IF state[f].s = "Created"
                                            THEN "Missing parent span"
                                            ELSE "Parent span changed across execution")
                  /\ events' = events
                  /\ cur' = cur
                  /\ stack' = stack
                  /\ notifiers' = notifiers]_vars
    /\ [](\A x \in Polling :
              LET fr == stack[x[1]][x[2]]
              IN fr.pre # None /\ fr.pre = fr.parent)

\* C12 witness: a first poll was made on a thread without a span, and a future
\* that had started on one thread was polled on another thread whose span is not
\* its parent.
C12_Witness ==
    /\ \E x \in Calls : Call(x).msg = "Missing parent span"
    /\ \E x \in Calls : \E i \in 1..(x[2] - 1) :
           /\ Call(x).msg = "Parent span changed across execution"
           /\ calls[x[1]][i].kind = "ret"
           /\ calls[x[1]][i].t # Call(x).t

\* The park() calls of driver d that a notify() answered: the next operation on
\* the slot after them is a take.
Answered(d) ==
    {i \in 1..Len(ops) :
        /\ ops[i].op = "park"
        /\ ops[i].h = DriverTask(d)
        /\ \E j \in (i + 1)..Len(ops) :
               /\ ops[j].op = "take"
               /\ \A m \in (i + 1)..(j - 1) : ops[m].op \notin {"park", "take"}}

\* The park() calls that another context's park() overwrote before any notify().
Overwritten ==
    {i \in 1..Len(ops) :
        /\ ops[i].op = "park"
        /\ \E k \in (i + 1)..Len(ops) :
               /\ ops[k].op = "park"
               /\ ops[k].h # ops[i].h
               /\ \A m \in (i + 1)..(k - 1) : ops[m].op \notin {"park", "take"}}

\* C13: the AtomicTask has one waiter. When contexts park() one after the other
\* with no notify() between, the notify() that follows takes the handle of the
\* last parker only; a context is woken exactly as often as a park() of its own
\* was directly followed by a take, so an overwritten park() is never answered,
\* whatever notify() calls come later.
C13_LastParkerOnly ==
    /\ \A j \in 1..Len(ops) :
           ops[j].op = "take" =>
               \E i \in 1..(j - 1) :
                   /\ ops[i].op = "park"
                   /\ ops[i].h = ops[j].h
                   /\ i \notin Overwritten
                   /\ \A m \in (i + 1)..(j - 1) : ops[m].op \notin {"park", "take"}
    /\ \A d \in Threads :
           /\ woken[d] + Waking(d) = Cardinality(Answered(d))
           /\ Answered(d) \cap Overwritten = {}

\* C13 witness: two different drivers parked with no notify() between, the
\* notify() that followed woke the second one, a further notify() found the slot
\* empty, and the first parker was not woken at all.
C13_Witness ==
    \E i, k, j, m \in 1..Len(ops) :
        /\ i < k /\ k < j /\ j < m
        /\ ops[i].op = "park" /\ ops[k].op = "park"
        /\ ops[i].h # ops[k].h
        /\ ops[j].op = "take" /\ ops[j].h = ops[k].h
        /\ ops[m].op = "none"
        /\ woken[ops[k].h.i] = 1
        /\ woken[ops[i].h.i] = 0
        /\ \A t \in Threads : stack[t] = <<>>

\* The invocations of Notifier n in progress, and those that have returned.
InFlight(n) == Cardinality({x \in Threads \X (1..(2 * MaxPolls)) :
                                /\ x[2] <= Len(stack[x[1]])
                                /\ stack[x[1]][x[2]].k = "ntf"
                                /\ stack[x[1]][x[2]].n = n})
Done(n) == tally[n].invoked - InFlight(n)

\* C14: once an invocation of the Notifier that a poll created has returned, on
\* whichever thread and however the invocations interleave, the context that
\* made that poll (a driver, or for a nested poll the Notifier of the enclosing
\* poll) has been woken: its handle was notified, exactly once over all the
\* invocations, and a driver's wake count is the number of its polls so answered.
\* That covers every poll that returned NotReady and whose Notifier was invoked
\* afterwards.
C14_NoLostWakeup ==
    /\ \A n \in 1..Len(tally) :
           /\ tally[n].woke <= 1
           /\ Done(n) >= 1 =>
                  /\ tally[n].woke = 1
                  /\ tally[n].parker.k = "driver" => woken[tally[n].parker.i] >= 1
                  /\ tally[n].parker.k = "ntf" => Done(tally[n].parker.i) >= 1
    /\ \A d \in Threads :
           woken[d] = Cardinality({n \in 1..Len(tally) :
                                      tally[n].parker = DriverTask(d) /\ tally[n].woke = 1})
    /\ \A x \in Calls :
           (Call(x).kind = "ret" /\ Call(x).res = NotReady /\ Done(Call(x).n) >= 1) =>
               tally[Call(x).n].woke = 1

\* C14 witness: a driver's poll returned NotReady, another thread invoked the
\* Notifier of that poll afterwards, and the driver was woken; the Notifier was
\* invoked a second time as well.
C14_Witness ==
    \E x \in Calls :
        /\ Call(x).kind = "ret" /\ Call(x).res = NotReady
        /\ tally[Call(x).n].parker = DriverTask(Call(x).t)
        /\ tally[Call(x).n].external = 2
        /\ tally[Call(x).n].invoked = 2
        /\ Done(Call(x).n) = 2
        /\ woken[Call(x).t] = 1
        /\ \E u \in Threads : u # Call(x).t /\ Len(events[u]) > 0
                              /\ Last(events[u]).e = "Wakeup"
                              /\ Last(events[u]).id = Call(x).id

\* The poll calls of f that got past the entry checks: ended ones and the one in
\* progress.
Entered(f) == Cardinality({i \in 1..Len(calls[f]) : calls[f][i].kind # "fatal"})
              + Cardinality({x \in Polling : stack[x[1]][x[2]].f = f})
ReturnedCalls(f) == Cardinality({i \in 1..Len(calls[f]) : calls[f][i].kind = "ret"})
\* The positions of all sinks, and the event at one.
Sunk == UNION {{<<t, i>> : i \in 1..Len(events[t])} : t \in Threads}
At(x) == events[x[1]][x[2]]

\* C15: a TracedFuture owns one span. SpanId::new() has run once for every
\* future that was ever polled and never more; a future has at most one
\* AsyncStart; each of its polls works under the id of that AsyncStart, and the
\* events carrying that id are exactly the events of its own polls (its AsyncStart,
\* one OnCPU per poll past the entry checks, one OffCPU per returned poll, one End
\* on completion); no event carries any other id, and two futures never share one.
C15_OneSpanPerFuture ==
    /\ nextId = NumRoots + 1 + Cardinality({f \in Futures : state[f].s # "Created"})
    /\ \A f \in Futures :
           LET id == SpanOf(f)
               entered == Entered(f)
               mine == {x \in Sunk : IsAsync(At(x)) /\ At(x).id = id}
           IN /\ Started(f) = (IF entered > 0 THEN 1 ELSE 0)
              /\ \A i \in 1..Len(calls[f]) :
                     calls[f][i].kind # "fatal" => calls[f][i].id = id
              /\ \A x \in Polling :
                     stack[x[1]][x[2]].f = f => stack[x[1]][x[2]].id = id
              /\ state[f].s = "Executing" => state[f].id = id
              /\ entered > 0 =>
                     /\ id \notin RootSpans \cup {None}
                     /\ Cardinality(mine) = 1 + entered + ReturnedCalls(f)
                                              + (IF Completed(f) THEN 1 ELSE 0)
                     /\ \A x \in mine : At(x).e = "AsyncStart" => At(x).name = f
    /\ LET ids == {SpanOf(f) : f \in Futures} \ {None}
       IN \A x \in Sunk : IsAsync(At(x)) => At(x).id \in ids

\* C15 witness: two futures have started; one of them was
\* polled twice and completed, and the other was polled from inside it.
C15_Witness ==
    \E f, g \in Futures :
        /\ f # g
        /\ Started(f) = 1 /\ Started(g) = 1
        /\ Entered(f) >= 2 /\ Completed(f)
        /\ \E i \in 1..Len(calls[g]) : calls[g][i].kind = "ret" /\ calls[g][i].pre = SpanOf(f)

\* C16 (as claimed): every poll call that the wrapped computation's poll left by
\* unwinding has current_span of its thread back at the value from before the
\* call when the unwind reaches the caller, and has emitted an AsyncOffCPU for
\* its AsyncOnCPU.
C16_UnwindRestores ==
    \A x \in Calls :
        Call(x).kind = "unwind" =>
            /\ Call(x).post = Call(x).pre
            /\ OwnCount(Call(x), "AsyncOffCPU") = OwnCount(Call(x), "AsyncOnCPU")

\* The free-standing AtomicTask's park() was called, and returned, in this step
\* on thread t.
ParkedNow(t) ==
    /\ Len(ops') = Len(ops) + 1
    /\ Last(ops').op = "park"
    /\ Last(ops').t = t

\* Its notify() returned in this step on thread t.
NotifyReturnedNow(t) ==
    /\ stack[t] # <<>>
    /\ Top(t).k = "notify"
    /\ stack'[t] = Pop(stack[t])

\* C17: the slot of an AtomicTask is empty or holds one handle; in the step in
\* which notify() returns the slot is empty; in the step in which park() returns
\* the slot holds the handle of the calling context; and a park() by the context
\* whose handle is already recorded leaves the AtomicTask as it was.
C17_SlotDiscipline ==
    /\ [](\A a \in 1..Len(atasks) :
              atasks[a].task \in {NoTask} \cup {DriverTask(d) : d \in Threads}
                                 \cup {NotifierTask(n) : n \in 1..Len(notifiers)})
    /\ [][\A t \in Threads :
              /\ NotifyReturnedNow(t) => atasks'[1].task = NoTask
              /\ ParkedNow(t) =>
                     /\ atasks'[1].task = CurrentTask(t)
                     /\ atasks[1].task = CurrentTask(t) => atasks' = atasks]_vars

\* C17 witness: a context parked twice in a row, with its handle still recorded
\* at the second park(), and a notify() after that took the handle and returned,
\* leaving the slot empty.
C17_Witness ==
    /\ \E i, j \in 1..Len(ops) :
           /\ i + 1 < j
           /\ ops[i].op = "park" /\ ops[i + 1].op = "park"
           /\ ops[i].h = ops[i + 1].h
           /\ ops[j].op = "wake" /\ ops[j].h = ops[i].h
    /\ atasks[1].task = NoTask
    /\ \A t \in Threads : stack[t] = <<>>

\* Notifier n was invoked in this step on thread t.
InvokedNow(t, n) ==
    /\ tally'[n].invoked = tally[n].invoked + 1
    /\ stack'[t] # stack[t]

\* C18: every invocation of a Notifier calls notify() of its own AtomicTask, and
\* once: whatever the guard and current_span of the thread are when it is
\* invoked, it arrives at that call, and the calls made so far are the
\* invocations less those that have not yet got hold of the slot.
C18_NotifyOncePerInvocation ==
    /\ [][\A t \in Threads : \A n \in 1..Len(tally) :
              InvokedNow(t, n) =>
                  /\ Last(stack'[t]).k = "ntf"
                  /\ Last(stack'[t]).n = n
                  /\ Last(stack'[t]).a = notifiers[n].parent_task
                  /\ Last(stack'[t]).pc = "lock"
                  /\ tally'[n].notified = tally[n].notified]_vars
    /\ [](\A n \in 1..Len(tally) :
              /\ tally[n].invoked - tally[n].notified = AtLock(n)
              /\ Done(n) <= tally[n].notified)

\* C18 witness: on a thread without a span an invocation made with the guard set
\* (from inside another invocation) has called notify() and taken a handle; the
\* outer invocation has made its one call as well.
C18_Witness ==
    \E t \in Threads : \E i, j \in Relaying(t) :
        /\ i < j
        /\ cur[t] = None
        /\ logging[t]
        /\ ~stack[t][j].log
        /\ stack[t][j].pc = "wake"
        /\ tally[stack[t][j].n].invoked = 1
        /\ tally[stack[t][j].n].notified = 1
        /\ tally[stack[t][i].n].invoked = 1
        /\ tally[stack[t][i].n].notified = 1

\* The future whose poll created Notifier n, and the span of that future.
CreatorOf(n) ==
    CHOOSE f \in Futures :
        \/ \E i \in 1..Len(calls[f]) : calls[f][i].kind # "fatal" /\ calls[f][i].n = n
        \/ \E x \in Polling : stack[x[1]][x[2]].f = f /\ stack[x[1]][x[2]].n = n
CreatorSpan(n) == SpanOf(CreatorOf(n))

\* What thread t's sink received in this step.
Received(t) == SubSeq(events'[t], Len(events[t]) + 1, Len(events'[t]))

\* C19: a Wakeup is emitted only by an invocation of a Notifier, on the invoking
\* thread, with parked_span the span of the future whose poll created that
\* Notifier and waking_span the invoking thread's current_span at the invocation;
\* an invocation on a thread whose current_span is None emits nothing.
C19_WakeupSpans ==
    /\ [][\A t \in Threads :
              /\ \A n \in 1..Len(tally) :
                     InvokedNow(t, n) =>
                         /\ Received(t) \in {<<>>, <<Wakeup(cur[t], CreatorSpan(n), t)>>}
                         /\ cur[t] = None => Received(t) = <<>>
                         /\ CreatorSpan(n) # None
              /\ (\E i \in 1..Len(Received(t)) : Received(t)[i].e = "Wakeup") =>
                     \E n \in 1..Len(tally) : InvokedNow(t, n)]_vars
    /\ [](\A x \in Sunk :
              At(x).e = "Wakeup" =>
                  /\ At(x).waking_span # None
                  /\ At(x).thr = x[1]
                  /\ \E n \in 1..Len(notifiers) :
                         /\ tally[n].invoked > 0
                         /\ At(x).id = notifiers[n].parked_span
                         /\ At(x).id = CreatorSpan(n))

\* C19 witness: one Notifier was invoked by a thread inside a root span, which
\* emitted a Wakeup from that root span to the Notifier's future, and by a thread
\* without a span, which emitted nothing.
C19_Witness ==
    \E n \in 1..Len(tally) : \E t, u \in Threads :
        /\ t # u
        /\ tally[n].external = 2
        /\ tally[n].spanned = 1
        /\ Done(n) = 2
        /\ cur[u] = None /\ events[u] = <<>>
        /\ Len(events[t]) > 0
        /\ Last(events[t]) = Wakeup(cur[t], CreatorSpan(n), t)
        /\ cur[t] \in RootSpans
        /\ CreatorSpan(n) \notin RootSpans \cup {None}

\* The poll frame enclosing poll frame j of thread t, 0 when a driver made the poll.
Enclosing(t, j) ==
    IF \E i \in PollFrames(t) : i < j
    THEN CHOOSE i \in PollFrames(t) : i < j /\ \A m \in PollFrames(t) : m < j => m <= i
    ELSE 0

\* C20 (as claimed): while the wrapped computation of a TracedFuture with span id
\* is executing, current_span of the polling thread is Some(id); a TracedFuture
\* first polled from inside it has its AsyncStart with parent_id = id, and the
\* events of the nested poll come after the enclosing poll's AsyncOnCPU.
C20_SpanInsidePoll ==
    \A t \in Threads :
        /\ InPoll(t) => cur[t] = Top(t).id
        /\ \A j \in PollFrames(t) :
               LET i == Enclosing(t, j)
                   fr == stack[t][j]
               IN i # 0 =>
                      /\ fr.from > stack[t][i].from
                      /\ events[t][stack[t][i].from + 1].e \in {"AsyncStart", "AsyncOnCPU"}
                      /\ events[t][fr.from + 1].e = "AsyncStart" =>
                             events[t][fr.from + 1].parent_id = stack[t][i].id

\* The events carrying future f's span id in the order they were emitted: polls
\* of one future do not overlap, so the order is that of its poll calls, ended
\* ones first and then the one in progress.
SpanTrace(f) ==
    LET ended[i \in 0..Len(calls[f])] ==
            IF i = 0 THEN <<>> ELSE ended[i - 1] \o Own(calls[f][i])
        running == {x \in Polling : stack[x[1]][x[2]].f = f}
    IN IF running = {} THEN ended[Len(calls[f])]
       ELSE LET x == CHOOSE y \in running : TRUE
                fr == stack[x[1]][x[2]]
            IN ended[Len(calls[f])] \o
               SelectSeq(SubSeq(events[x[1]], fr.from + 1, Len(events[x[1]])),
                         LAMBDA e : IsAsync(e) /\ e.id = fr.id)

\* C21 (as claimed): the events of one span come as AsyncStart, then AsyncOnCPU
\* and AsyncOffCPU strictly alternating, then at most one AsyncEnd directly after
\* the last AsyncOffCPU, whatever polls were made, fatal and unwound ones
\* included.
C21_SpanEventOrder ==
    \A f \in Futures :
        LET s == Kinds(SpanTrace(f))
        IN \A i \in 1..Len(s) :
               /\ (i = 1) <=> (s[i] = "AsyncStart")
               /\ s[i] = "AsyncOnCPU" => s[i - 1] \in {"AsyncStart", "AsyncOffCPU"}
               /\ s[i] = "AsyncOffCPU" => s[i - 1] = "AsyncOnCPU"
               /\ s[i] = "AsyncEnd" => (s[i - 1] = "AsyncOffCPU" /\ i = Len(s))

\* C22 (as claimed): on every thread currently_logging_wakeup is false whenever
\* no Notifier invocation is in progress on that thread, also after an invocation
\* on a thread without a span and after an invocation whose AtomicTask.notify()
\* unwound.
C22_GuardScoped ==
    \A t \in Threads : Relaying(t) = {} => ~logging[t]

\* C23: the AtomicTask of a Notifier gets its handle in the step that creates it
\* (the handle of the context making that poll, before the wrapped computation
\* runs) and no handle is ever written to it again, so the parked context is
\* woken at most once however often the Notifier is invoked; yet every
\* invocation on a thread with the guard clear and a current_span emits its
\* Wakeup, so a span can have more Wakeups than wakeups.
C23_ParkedOnce ==
    /\ [][/\ \A a \in 2..Len(atasks) :
                 atasks'[a].task # atasks[a].task => atasks'[a].task = NoTask
          /\ \A a \in (Len(atasks) + 1)..Len(atasks') :
                 \E t \in Threads :
                     /\ atasks'[a].task = CurrentTask(t)
                     /\ Len(stack'[t]) = Len(stack[t]) + 1
                     /\ Last(stack'[t]).k = "poll"
                     /\ notifiers'[Last(stack'[t]).n].parent_task = a
          /\ \A t \in Threads : \A n \in 1..Len(tally) :
                 (InvokedNow(t, n) /\ ~logging[t] /\ cur[t] # None) =>
                     Received(t) = <<Wakeup(cur[t], notifiers[n].parked_span, t)>>]_vars
    /\ [](\A n \in 1..Len(tally) :
              /\ tally[n].woke <= 1
              /\ atasks[notifiers[n].parent_task].task \in {NoTask, tally[n].parker}
              /\ tally[n].notified > 0 => atasks[notifiers[n].parent_task].task = NoTask)

\* C23 witness: one Notifier was invoked twice by idle threads inside a span;
\* both invocations emitted a Wakeup and the driver was woken once.
C23_Witness ==
    \E n \in 1..Len(tally) :
        /\ tally[n].external = 2
        /\ tally[n].logged = 2
        /\ Done(n) = 2
        /\ tally[n].woke = 1
        /\ tally[n].parker.k = "driver"
        /\ woken[tally[n].parker.i] = 1
        /\ Cardinality({x \in Sunk : At(x).e = "Wakeup"
                                     /\ At(x).id = notifiers[n].parked_span}) = 2

\* C24 (as claimed): no frame holds a mutable borrow of its thread's TracerState
\* while the wrapped computation is polled or while AtomicTask.notify() runs, so
\* no nested poll and no Notifier invocation made from there fails on a double
\* borrow; and a wrapped computation that invokes the Notifier of its own poll
\* emits Wakeup with waking_span = parked_span = its own span id.
C24_NoDoubleBorrow ==
    /\ [](\A t \in Threads : ~Borrowed(t))
    /\ [](\A x \in Calls : Call(x).msg # "already borrowed")
    /\ [](\A n \in 1..Len(tally) : Done(n) <= tally[n].notified)
    /\ [][\A t \in Threads : \A n \in 1..Len(tally) :
              (InvokedNow(t, n) /\ InPoll(t) /\ Top(t).n = n) =>
                  Received(t) = <<Wakeup(Top(t).id, Top(t).id, t)>>]_vars

\* C25 (as claimed): notify() does not hold the slot mutex while the wake routine
\* of the taken handle runs, and no thread is ever inside a park() or notify()
\* that cannot return because it waits for a mutex the thread itself holds.
C25_NoLockDuringWake ==
    \A t \in Threads : \A i \in 1..Len(stack[t]) :
        LET fr == stack[t][i]
        IN fr.k \in {"ntf", "notify"} =>
               /\ fr.pc \in {"wake", "done"} => atasks[fr.a].lock # t
               /\ fr.pc # "relock"

====
